---- MODULE Spec2Model ----
(***************************************************************************)
(* Model of maya_fk_gui.py: the JointCurveTool dialog and the host scene   *)
(* it edits.  Node names are sequences of one-character strings so that    *)
(* str.replace is computed character by character.  The host scene is the  *)
(* function `scene' from node name to node record; the host selection is   *)
(* the list of node names cmds.ls(selection=True) returns.                 *)
(***************************************************************************)
EXTENDS FiniteSets, Integers, Sequences, TLC

VARIABLES
    scene,          \* host: node name -> [type, curve, parent]
    selection,      \* host: the selection list, as cmds.ls(selection=True) returns it
    constraints,    \* host: constraint nodes the handler that last ran created and left
    open,           \* the dialog is shown
    info_label,     \* self.info_label text
    selected_label, \* self.selected_label: <<text, joint, curve>>
    run_enabled,    \* self.run_button.isEnabled()
    pc,             \* position inside run_tool ("idle" when no handler runs)
    sel_joint, sel_curve, ctrl_name, grp_name, result, parent_joint, \* run_tool locals
    warnings,       \* number of cmds.warning calls so far
    presses,        \* number of Run presses so far
    calls,          \* history: host calls issued by the handler that last ran
    outcome,        \* history: how the handler that last ran ended
    fresh           \* history: update_selection ran and the host selection has not changed since

hostVars == <<scene, selection, constraints>>
guiVars == <<info_label, selected_label, run_enabled>>
localVars == <<sel_joint, sel_curve, ctrl_name, grp_name, result, parent_joint>>
countVars == <<warnings, presses>>
histVars == <<calls, outcome, fresh>>
vars == <<hostVars, open, guiVars, pc, localVars, countVars, histVars>>

----------------------------------------------------------------------------
(* Bounds *)

MaxSel == 3         \* longest host selection considered
MaxPresses == 1     \* Run presses per behaviour

----------------------------------------------------------------------------
(* Names and strings *)

None == <<>>        \* Python None; like the empty string it is falsy

BIND == <<"B", "I", "N", "D">>
CC == <<"C", "C">>
cc_GRP == <<"c", "c", "_", "G", "R", "P">>

Digits == <<"1", "2", "3", "4", "5", "6", "7", "8", "9">>

\* str.replace(old, new): every non-overlapping occurrence, left to right
RECURSIVE Replace(_, _, _)
Replace(s, old, new) ==
    IF Len(s) < Len(old) THEN s
    ELSE IF SubSeq(s, 1, Len(old)) = old
         THEN new \o Replace(SubSeq(s, Len(old) + 1, Len(s)), old, new)
         ELSE <<s[1]>> \o Replace(Tail(s), old, new)

IsDigit(c) == \E d \in 1..Len(Digits) : Digits[d] = c

\* the host makes a requested node name unique among the names in use by
\* replacing its trailing digit, or appending one
StripDigit(s) ==
    IF Len(s) > 1 /\ IsDigit(s[Len(s)]) THEN SubSeq(s, 1, Len(s) - 1) ELSE s

UniqueName(req, used) ==
    IF req \notin used THEN req
    ELSE LET base == StripDigit(req)
             free == {d \in 1..Len(Digits) : (base \o <<Digits[d]>>) \notin used}
             d == CHOOSE x \in free : \A y \in free : x <= y
         IN  base \o <<Digits[d]>>

----------------------------------------------------------------------------
(* The host scene *)

Node(t, c, p) == [type |-> t, curve |-> c, parent |-> p]

RootJoint == BIND                   \* a joint at the top of its hierarchy
ChildJoint == <<"j">>               \* its child, named without 'BIND'
CurveNode == <<"c", "r", "v">>      \* the transform of a NURBS curve
MeshNode == <<"m">>                 \* the transform of a polygon mesh

InitialScene ==
    (RootJoint :> Node("joint", FALSE, None)) @@
    (ChildJoint :> Node("joint", FALSE, RootJoint)) @@
    (CurveNode :> Node("transform", TRUE, None)) @@
    (MeshNode :> Node("transform", FALSE, None))

\* the lists of distinct node names of length at most MaxSel
Selections(names) ==
    {s \in UNION {[1..n -> names] : n \in 0..MaxSel} :
        \A i, k \in 1..Len(s) : i # k => s[i] # s[k]}

\* cmds.objectType(obj)
objectType(obj) == scene[obj].type

\* what a selection list holds: each name with the kind of node it names
SelInfo(sel) ==
    [i \in 1..Len(sel) |->
        [name |-> sel[i], type |-> scene[sel[i]].type, curve |-> scene[sel[i]].curve]]

\* the scene after a node is renamed: its key, and every reference to it
Renamed(sc, old, new) ==
    [n \in (DOMAIN sc \ {old}) \cup {new} |->
        LET o == IF n = new THEN old ELSE n
        IN  [sc[o] EXCEPT !.parent = IF @ = old THEN new ELSE @]]

\* the scene after a new transform `g' is inserted above node `child'
Grouped(sc, child, g) ==
    [n \in DOMAIN sc \cup {g} |->
        IF n = g THEN Node("transform", FALSE, sc[child].parent)
        ELSE IF n = child THEN [sc[n] EXCEPT !.parent = g]
        ELSE sc[n]]

\* cmds.pickWalk(obj, direction='up'): the parent, or the node itself at the top
pickWalkUp(obj) == IF scene[obj].parent = None THEN obj ELSE scene[obj].parent

Constraint(k, driver, driven, mo) ==
    [kind |-> k, driver |-> driver, driven |-> driven, mo |-> mo]

\* one host call: the command, its two arguments, maintainOffset, and the name returned
Call(c, a, b, mo, ret) == [cmd |-> c, a |-> a, b |-> b, mo |-> mo, ret |-> ret]

----------------------------------------------------------------------------
(* The dialog *)

INFO_INITIAL == "Select one joint and one curve."
INFO_SUCCESS == "Tool executed successfully."
LABEL_INITIAL == <<"No selection made.", None, None>>
LABEL_COUNT == <<"You must select one joint and one curve.", None, None>>
LABEL_KINDS == <<"Selection must include one joint and one curve.", None, None>>
LabelSelected(joint, curve) ==
    <<"Selected Joint: {joint}\nSelected Curve: {curve}", joint, curve>>

\* identify_selection: the last joint and the last transform of the list
RECURSIVE identify_from(_, _, _)
identify_from(sel, j, c) ==
    IF sel = <<>> THEN <<j, c>>
    ELSE IF objectType(Head(sel)) = "joint" THEN identify_from(Tail(sel), Head(sel), c)
    ELSE IF objectType(Head(sel)) = "transform" THEN identify_from(Tail(sel), j, Head(sel))
    ELSE identify_from(Tail(sel), j, c)

identify_selection(sel) == identify_from(sel, None, None)

\* update_selection: the label and the button state computed from `sel'
update_label(sel) ==
    IF sel = <<>> \/ Len(sel) # 2 THEN LABEL_COUNT
    ELSE LET js == identify_selection(sel)
         IN  IF js[1] # None /\ js[2] # None
             THEN LabelSelected(js[1], js[2])
             ELSE LABEL_KINDS

update_enabled(sel) ==
    IF sel = <<>> \/ Len(sel) # 2 THEN FALSE
    ELSE LET js == identify_selection(sel)
         IN  js[1] # None /\ js[2] # None

----------------------------------------------------------------------------
Init ==
    /\ scene = InitialScene
    /\ selection \in Selections(DOMAIN InitialScene)
    /\ constraints = {}
    /\ open = FALSE
    /\ info_label = INFO_INITIAL
    /\ selected_label = LABEL_INITIAL
    /\ run_enabled = TRUE
    /\ pc = "idle"
    /\ sel_joint = None /\ sel_curve = None /\ ctrl_name = None
    /\ grp_name = None /\ result = {} /\ parent_joint = None
    /\ warnings = 0
    /\ presses = 0
    /\ calls = <<>>
    /\ outcome = "none"
    /\ fresh = FALSE

\* a new event starts: the record of the previous handler, and the values its
\* locals had when it returned, are dropped
NewEvent ==
    /\ calls' = <<>> /\ constraints' = {}
    /\ sel_joint' = None /\ sel_curve' = None /\ ctrl_name' = None
    /\ grp_name' = None /\ result' = {} /\ parent_joint' = None

\* the user changes the host selection in the host's viewport: a click selects
\* one node or nothing, a shift-click adds a node; the dialog is not notified
SelectionChange ==
    /\ pc = "idle"
    /\ \/ selection # <<>> /\ selection' = <<>>
       \/ \E n \in DOMAIN scene : selection # <<n>> /\ selection' = <<n>>
       \/ \E n \in DOMAIN scene :
             /\ Len(selection) < MaxSel
             /\ \A i \in 1..Len(selection) : selection[i] # n
             /\ selection' = Append(selection, n)
    /\ NewEvent
    /\ outcome' = "none"
    /\ fresh' = FALSE
    /\ UNCHANGED <<scene, open, guiVars, pc, countVars>>

\* show_tool / __init__ / init_gui
show_tool ==
    /\ pc = "idle"
    /\ ~open
    /\ open' = TRUE
    /\ info_label' = INFO_INITIAL
    /\ selected_label' = update_label(selection)
    /\ run_enabled' = update_enabled(selection)
    /\ NewEvent
    /\ outcome' = "shown"
    /\ fresh' = TRUE
    /\ UNCHANGED <<scene, selection, pc, countVars>>

\* the Close button
close ==
    /\ pc = "idle"
    /\ open
    /\ open' = FALSE
    /\ NewEvent
    /\ outcome' = "none"
    /\ UNCHANGED <<scene, selection, guiVars, pc, countVars, fresh>>

----------------------------------------------------------------------------
(* run_tool *)

\* the name run_tool asks the host to give the curve
ctrl_request(joint) == Replace(joint, BIND, CC)

\* variant: the group's name derived from the name requested for the controller
grp_request_of_requested(ctrl) == Replace(ctrl_request(sel_joint), CC, cc_GRP)

\* the name run_tool asks the host to give the group, from the controller's name
grp_request(ctrl) == Replace(ctrl, CC, cc_GRP)

Issue(c) == calls' = Append(calls, c)

\* variant: the rejected press also refreshes the label and the button
RunToolRejectedRefreshing ==
    /\ pc = "idle" /\ open /\ run_enabled
    /\ presses < MaxPresses
    /\ LET js == identify_selection(selection)
       IN  js[1] = None \/ js[2] = None
    /\ warnings' = warnings + 1
    /\ presses' = presses + 1
    /\ NewEvent
    /\ outcome' = "warned"
    /\ selected_label' = update_label(selection)
    /\ run_enabled' = update_enabled(selection)
    /\ fresh' = TRUE
    /\ UNCHANGED <<scene, selection, open, info_label, pc>>

\* the Run button, when the validation check fails
RunToolRejected ==
    /\ pc = "idle" /\ open /\ run_enabled
    /\ presses < MaxPresses
    /\ LET js == identify_selection(selection)
       IN  js[1] = None \/ js[2] = None
    /\ warnings' = warnings + 1
    /\ presses' = presses + 1
    /\ NewEvent
    /\ outcome' = "warned"
    /\ UNCHANGED <<scene, selection, open, guiVars, pc, fresh>>

\* the Run button, when the validation check passes
RunToolAccepted ==
    /\ pc = "idle" /\ open /\ run_enabled
    /\ presses < MaxPresses
    /\ LET js == identify_selection(selection)
       IN  /\ js[1] # None /\ js[2] # None
           /\ sel_joint' = js[1]
           /\ sel_curve' = js[2]
    /\ ctrl_name' = None /\ grp_name' = None /\ result' = {} /\ parent_joint' = None
    /\ calls' = <<>> /\ constraints' = {}
    /\ presses' = presses + 1
    /\ outcome' = "running"
    /\ pc' = "makeIdentity"
    /\ UNCHANGED <<scene, selection, open, guiVars, warnings, fresh>>

\* cmds.makeIdentity(sel_curve, apply=True)
FreezeTransforms ==
    /\ pc = "makeIdentity"
    /\ Issue(Call("makeIdentity", sel_curve, None, FALSE, None))
    /\ pc' = "deleteHistory"
    /\ UNCHANGED <<hostVars, open, guiVars, localVars, countVars, outcome, fresh>>

\* cmds.delete(sel_curve, constructionHistory=True)
DeleteHistory ==
    /\ pc = "deleteHistory"
    /\ Issue(Call("deleteHistory", sel_curve, None, FALSE, None))
    /\ pc' = "rename"
    /\ UNCHANGED <<hostVars, open, guiVars, localVars, countVars, outcome, fresh>>

\* ctrl_name = cmds.rename(sel_curve, sel_joint.replace('BIND', 'CC'))
RenameCurve ==
    /\ pc = "rename"
    /\ LET req == ctrl_request(sel_joint)
           ret == UniqueName(req, DOMAIN scene \ {sel_curve})
       IN  /\ Issue(Call("rename", sel_curve, req, FALSE, ret))
           /\ scene' = Renamed(scene, sel_curve, ret)
           /\ selection' = [i \in 1..Len(selection) |->
                               IF selection[i] = sel_curve THEN ret ELSE selection[i]]
           /\ ctrl_name' = ret
    /\ fresh' = FALSE
    /\ pc' = "group"
    /\ UNCHANGED <<constraints, open, guiVars, countVars, outcome,
                   sel_joint, sel_curve, grp_name, result, parent_joint>>

\* grp_name = cmds.group(ctrl_name, name=ctrl_name.replace('CC', 'cc_GRP'))
GroupCurve ==
    /\ pc = "group"
    /\ LET req == grp_request(ctrl_name)
           ret == UniqueName(req, DOMAIN scene)
       IN  /\ Issue(Call("group", ctrl_name, req, FALSE, ret))
           /\ scene' = Grouped(scene, ctrl_name, ret)
           /\ selection' = <<ret>>
           /\ grp_name' = ret
    /\ fresh' = FALSE
    /\ pc' = "parentConstraint"
    /\ UNCHANGED <<constraints, open, guiVars, countVars, outcome,
                   sel_joint, sel_curve, ctrl_name, result, parent_joint>>

\* result = cmds.parentConstraint(sel_joint, grp_name, maintainOffset=False)
SnapGroupToJoint ==
    /\ pc = "parentConstraint"
    /\ LET c == Constraint("parentConstraint", sel_joint, grp_name, FALSE)
       IN  /\ Issue(Call("parentConstraint", sel_joint, grp_name, FALSE, None))
           /\ constraints' = constraints \cup {c}
           /\ result' = {c}
    /\ pc' = "delete"
    /\ UNCHANGED <<scene, selection, open, guiVars, countVars, outcome, fresh,
                   sel_joint, sel_curve, ctrl_name, grp_name, parent_joint>>

\* variant: the temporary constraint is left in the scene
DeleteResultSkipped ==
    /\ pc = "delete"
    /\ Issue(Call("delete", sel_joint, grp_name, FALSE, None))
    /\ pc' = "orientConstraint"
    /\ UNCHANGED <<hostVars, open, guiVars, localVars, countVars, outcome, fresh>>

\* cmds.delete(result)
DeleteResult ==
    /\ pc = "delete"
    /\ Issue(Call("delete", sel_joint, grp_name, FALSE, None))
    /\ constraints' = constraints \ result
    /\ pc' = "orientConstraint"
    /\ UNCHANGED <<scene, selection, open, guiVars, localVars, countVars, outcome, fresh>>

\* cmds.orientConstraint(ctrl_name, sel_joint, maintainOffset=False)
OrientJointToCtrl ==
    /\ pc = "orientConstraint"
    /\ Issue(Call("orientConstraint", ctrl_name, sel_joint, FALSE, None))
    /\ constraints' = constraints \cup
                        {Constraint("orientConstraint", ctrl_name, sel_joint, FALSE)}
    /\ pc' = "pickWalk"
    /\ UNCHANGED <<scene, selection, open, guiVars, localVars, countVars, outcome, fresh>>

\* parent_joint = cmds.pickWalk(sel_joint, direction='up')[0]
PickWalk ==
    /\ pc = "pickWalk"
    /\ Issue(Call("pickWalk", sel_joint, None, FALSE, pickWalkUp(sel_joint)))
    /\ parent_joint' = pickWalkUp(sel_joint)
    /\ selection' = <<pickWalkUp(sel_joint)>>
    /\ fresh' = FALSE
    /\ pc' = "parentConstraint2"
    /\ UNCHANGED <<scene, constraints, open, guiVars, countVars, outcome,
                   sel_joint, sel_curve, ctrl_name, grp_name, result>>

\* cmds.parentConstraint(parent_joint, grp_name, maintainOffset=True)
ConstrainGroupToParent ==
    /\ pc = "parentConstraint2"
    /\ Issue(Call("parentConstraint", parent_joint, grp_name, TRUE, None))
    /\ constraints' = constraints \cup
                        {Constraint("parentConstraint", parent_joint, grp_name, TRUE)}
    /\ pc' = "finish"
    /\ UNCHANGED <<scene, selection, open, guiVars, localVars, countVars, outcome, fresh>>

\* variant: the success text is set but the label and button are not recomputed
FinishWithoutRefresh ==
    /\ pc = "finish"
    /\ info_label' = INFO_SUCCESS
    /\ outcome' = "success"
    /\ pc' = "idle"
    /\ UNCHANGED <<hostVars, open, selected_label, run_enabled, localVars,
                   countVars, calls, fresh>>

\* self.info_label.setText(...); self.update_selection(); return
Finish ==
    /\ pc = "finish"
    /\ info_label' = INFO_SUCCESS
    /\ selected_label' = update_label(selection)
    /\ run_enabled' = update_enabled(selection)
    /\ fresh' = TRUE
    /\ outcome' = "success"
    /\ pc' = "idle"
    /\ UNCHANGED <<hostVars, open, localVars, countVars, calls>>

HostCallPositions ==
    {"makeIdentity", "deleteHistory", "rename", "group", "parentConstraint",
     "delete", "orientConstraint", "pickWalk", "parentConstraint2"}

\* the host call about to be issued raises instead: the exception leaves run_tool
HostCallRaises ==
    /\ pc \in HostCallPositions
    /\ pc' = "idle"
    /\ outcome' = "raised"
    /\ UNCHANGED <<hostVars, open, guiVars, localVars, countVars, calls, fresh>>

Next ==
    \/ SelectionChange
    \/ show_tool
    \/ close
    \/ RunToolRejected
    \/ RunToolAccepted
    \/ FreezeTransforms
    \/ DeleteHistory
    \/ RenameCurve
    \/ GroupCurve
    \/ SnapGroupToJoint
    \/ DeleteResult
    \/ OrientJointToCtrl
    \/ PickWalk
    \/ ConstrainGroupToParent
    \/ Finish
    \/ HostCallRaises

Spec == Init /\ [][Next]_vars

TypeOK ==
    /\ selection \in Selections(DOMAIN scene)
    /\ pc \in HostCallPositions \cup {"idle", "finish"}
    /\ outcome \in {"none", "shown", "warned", "running", "raised", "success"}
    /\ warnings <= presses /\ presses <= MaxPresses

----------------------------------------------------------------------------
(* Properties *)

\* a selection of exactly two nodes, one a joint and the other a curve
ExactlyJointAndCurve(sel) ==
    /\ Len(sel) = 2
    /\ \E i, k \in 1..2 :
          /\ i # k
          /\ scene[sel[i]].type = "joint"
          /\ scene[sel[k]].curve

\* the commands of the calls issued so far, in order
Commands == [i \in 1..Len(calls) |-> calls[i].cmd]

\* the calls of one complete run
EditSequence ==
    <<"makeIdentity", "deleteHistory", "rename", "group", "parentConstraint",
      "delete", "orientConstraint", "pickWalk", "parentConstraint">>

\* the steps of the edit sequence in the order history cleanup, freeze
\* transforms, rename, grouping, constraint setup
StepOf(cmd) ==
    CASE cmd = "deleteHistory" -> 1
      [] cmd = "makeIdentity" -> 2
      [] cmd = "rename" -> 3
      [] cmd = "group" -> 4
      [] OTHER -> 5

\* C1: the edits of a run are issued in the order history cleanup, freeze
\* transforms, rename, grouping, constraint setup: no edit of a later step
\* precedes an edit of an earlier step.
C1_EditOrder ==
    \A i, k \in 1..Len(calls) :
        i < k => StepOf(calls[i].cmd) <= StepOf(calls[k].cmd)

\* C2: scene edits are issued only when the host selection at the press is
\* exactly one joint and one curve (the selection is untouched from the press
\* until the rename).
C2_EditsOnlyForJointAndCurve ==
    (Len(calls) \in {1, 2}) => ExactlyJointAndCurve(selection)

\* C3: right after update_selection the Run button is enabled iff the
\* selection is exactly one joint and one curve; the label then names them,
\* and otherwise carries the message for the wrong count or the wrong kinds.
C3_ButtonAndLabel ==
    fresh =>
        /\ run_enabled <=> ExactlyJointAndCurve(selection)
        /\ run_enabled =>
              \E i, k \in 1..2 :
                  /\ scene[selection[i]].type = "joint"
                  /\ scene[selection[k]].curve
                  /\ selected_label = LabelSelected(selection[i], selection[k])
        /\ Len(selection) # 2 => selected_label = LABEL_COUNT
        /\ (Len(selection) = 2 /\ ~ExactlyJointAndCurve(selection))
              => selected_label = LABEL_KINDS

\* C4: a press whose validation check fails emits exactly one warning and
\* returns: no host edit, the labels and the button untouched, and
\* update_selection not called.
C4_RejectedPress ==
    [][(/\ presses' = presses + 1
        /\ \/ identify_selection(selection)[1] = None
           \/ identify_selection(selection)[2] = None)
       => /\ warnings' = warnings + 1
          /\ pc' = "idle"
          /\ calls' = <<>>
          /\ UNCHANGED <<scene, selection, info_label, selected_label, run_enabled, fresh>>]_vars

C4_Witness ==
    /\ outcome = "warned"
    /\ warnings = 1
    /\ run_enabled
    /\ ~fresh
    /\ selected_label # update_label(selection)

\* C5: the info label becomes the success text only when every host call of
\* the sequence has been issued, the label and button are then recomputed
\* from the host selection of that moment, and a run that a host call ends
\* leaves both labels and the button as they were.
C5_SuccessLabel ==
    [][/\ (info_label' # info_label /\ info_label' = INFO_SUCCESS)
            => Commands = EditSequence
       /\ (outcome' = "success" /\ outcome # "success")
            => /\ Commands = EditSequence
               /\ info_label' = INFO_SUCCESS
               /\ selected_label' = (update_label(selection))'
               /\ run_enabled' = (update_enabled(selection))'
       /\ (outcome' = "raised")
            => UNCHANGED <<info_label, selected_label, run_enabled, fresh>>]_vars

C5_Witness ==
    /\ outcome = "success"
    /\ info_label = INFO_SUCCESS
    /\ Commands = EditSequence
    /\ selected_label = LABEL_COUNT
    /\ ~run_enabled

TemporaryConstraint == Constraint("parentConstraint", sel_joint, grp_name, FALSE)

C7_DriverIsParentJoint ==
    \A c \in constraints :
        (c.kind = "parentConstraint" /\ c.mo)
           => /\ c.driver # sel_joint
              /\ c.driver = scene[sel_joint].parent

\* the call of command `cmd' in the latest run (rename and group occur at most once)
CallOf(cmd) == CHOOSE i \in 1..Len(calls) : calls[i].cmd = cmd
Issued(cmd) == \E i \in 1..Len(calls) : calls[i].cmd = cmd

\* C8: the controller's requested name is the joint's name with 'BIND'
\* replaced by 'CC'; the group's requested name is the name the host returned
\* for the controller with 'CC' replaced by 'cc_GRP'; the group call and the
\* constraint calls use the names the host returned.
C8_Names ==
    /\ Issued("rename") =>
          calls[CallOf("rename")].b = Replace(sel_joint, BIND, CC)
    /\ Issued("group") =>
          /\ calls[CallOf("group")].a = calls[CallOf("rename")].ret
          /\ calls[CallOf("group")].b =
                Replace(calls[CallOf("rename")].ret, CC, cc_GRP)
    /\ \A i \in 1..Len(calls) :
          /\ (calls[i].cmd = "parentConstraint")
                => calls[i].b = calls[CallOf("group")].ret
          /\ (calls[i].cmd = "orientConstraint")
                => calls[i].a = calls[CallOf("rename")].ret

C8_Witness ==
    /\ outcome = "success"
    /\ calls[CallOf("rename")].ret # calls[CallOf("rename")].b
    /\ calls[CallOf("group")].b # Replace(calls[CallOf("rename")].b, CC, cc_GRP)

\* C9: the name requested for the controller differs from the joint's name,
\* and the name requested for the group differs from the controller's name.
C9_RequestsDiffer ==
    \A i \in 1..Len(calls) :
        /\ (calls[i].cmd = "rename") => calls[i].b # sel_joint
        /\ (calls[i].cmd = "group") => calls[i].b # calls[i].a

\* C10: while the dialog is open and idle, an enabled Run button means the
\* host selection is exactly the joint and the curve the selected label shows.
C10_EnabledMatchesSelection ==
    (open /\ pc = "idle" /\ run_enabled)
       => /\ Len(selection) = 2
          /\ {selection[1], selection[2]} = {selected_label[2], selected_label[3]}

====
